---- MODULE Spec2Model ----
(***************************************************************************)
(* Model of process_health_data.py: the extraction, aggregation and merge  *)
(* pipeline that main() runs over the records of an Apple Health export.   *)
(*                                                                         *)
(* Representation.                                                         *)
(*   - A datetime is a number of minutes since day 0 00:00 (the exports    *)
(*     modelled carry whole-minute timestamps); a date is a day number.    *)
(*   - An optional or formatted value is a record [t, v]: t tells what it  *)
(*     is ("None", "empty" for '', "datetime", "HH:MM", "count", or a float  *)
(*     rounded to one decimal in "tenths" or to two in "hundredths") and v *)
(*     is its integer content.                                             *)
(*   - A numeric value attribute is a decimal text, kept in hundredths.    *)
(***************************************************************************)
EXTENDS Integers, Sequences, FiniteSets

VARIABLES
    root,            \* the parsed export: its Record elements, in document order
    days_back,       \* args.days
    clock,           \* the wall clock that datetime.now() reads
    pc,              \* the statement of main() that runs next
    cutoffs,         \* cutoff_date of each extractor that has run, in call order
    sleep_sessions,  \* result of process_sleep_data
    heart_rates,     \* result of process_heart_rate_data
    resting_hrs,     \* result of process_resting_heart_rate
    hrvs,            \* result of process_hrv_data
    daily_sleep,     \* result of aggregate_daily_sleep
    daily_heart,     \* result of aggregate_daily_heart_data
    combined_data,   \* the rows generate_spreadsheet writes
    exit_code        \* -1 while running, 0 after a normal end, 1 after sys.exit(1)

vars == <<root, days_back, clock, pc, cutoffs, sleep_sessions, heart_rates,
          resting_hrs, hrvs, daily_sleep, daily_heart, combined_data, exit_code>>

-----------------------------------------------------------------------------
(* Bounds of the model *)

\* longest export (number of Record elements) that Init draws
MaxRecords == 3
\* minutes the wall clock may advance during one run
MaxAdvance == 1

-----------------------------------------------------------------------------
(* Values *)

None == [t |-> "None", v |-> 0]
Empty == [t |-> "empty", v |-> 0]
Count(n) == [t |-> "count", v |-> n]
Tenths(n) == [t |-> "tenths", v |-> n]
\* a float holding a whole number of minutes
Minutes(n) == [t |-> "minutes", v |-> n]
Hundredths(n) == [t |-> "hundredths", v |-> n]
DateTime(m) == [t |-> "datetime", v |-> m]

MinutesPerDay == 24 * 60

\* --days, default=30
DefaultDaysBack == 30

\* minutes since day 0 00:00 of day d, h:m
At(d, h, m) == d * MinutesPerDay + h * 60 + m

\* datetime.date()
DateOf(m) == m \div MinutesPerDay

\* strftime('%H:%M'): the time of day, read as the digits HHMM
StrfHM(m) == [t |-> "HH:MM", v |-> ((m % MinutesPerDay) \div 60) * 100 + (m % 60)]

\* strftime('%Y-%m-%d %H:%M:%S'): the text of a datetime, seconds being 00
StrfTime(m) == [d |-> DateOf(m), h |-> (m % MinutesPerDay) \div 60, mi |-> m % 60]

\* datetime.strptime(text, '%Y-%m-%d %H:%M:%S')
StrpTime(s) == At(s.d, s.h, s.mi)

\* a startDate/endDate attribute "Y-m-d H:M:00 <tz>" ; ok = FALSE is a text that
\* strptime rejects or an attribute that is absent
DateAttr(d, h, m, tz) == [ok |-> TRUE, d |-> d, h |-> h, mi |-> m, tz |-> tz]
BadDateAttr == [ok |-> FALSE, d |-> 0, h |-> 0, mi |-> 0, tz |-> 0]

parse_date(date_string) ==
    IF date_string.ok
    THEN DateTime(At(date_string.d, date_string.h, date_string.mi))
    ELSE None

\* a value attribute: a sleep category name, a decimal number (in hundredths),
\* any other text, or no attribute at all
Category(name) == [kind |-> "category", name |-> name, num |-> 0]
Number(hundredths) == [kind |-> "number", name |-> "", num |-> hundredths]
Garbage == [kind |-> "garbage", name |-> "n/a", num |-> 0]
Absent == [kind |-> "absent", name |-> "", num |-> 0]

\* float(value) raises for a text that is no number (ValueError) and for None (TypeError)
FloatRaises(value) == value.kind # "number"

\* value.replace('HKCategoryValueSleepAnalysis', ''); raises AttributeError on None.
\* Category(name) stands for the text 'HKCategoryValueSleepAnalysis' + name.
ReplaceRaises(value) == value.kind = "absent"
StripPrefix(value) ==
    CASE value.kind = "category" -> value.name
      [] value.kind = "number"   -> "<number>"
      [] OTHER                   -> value.name

-----------------------------------------------------------------------------
(* Rounding *)

\* Python's float is IEEE binary64: a significand of 1 + FractionBits bits,
\* every result the nearest float, a tie going to the even significand.
\* A decimal such as 60.15 is not a float, and round() rounds the float, so a
\* value half-way between two decimals goes where the error of the float
\* points.  A real is written here as the exact fraction D / (10 n) plus an
\* error of E units of 1 / (5 n 2^Scale); every float between 2^-8 and 2^21 is
\* such a real, with E small.
FractionBits == 52
Scale == 60

RECURSIVE Pow2(_)
Pow2(k) == IF k = 0 THEN 1 ELSE 2 * Pow2(k - 1)

RECURSIVE Pow2Mod(_, _)
Pow2Mod(k, m) == IF k = 0 THEN 1 % m ELSE (2 * Pow2Mod(k - 1, m)) % m

\* the binary exponent e of num / den, 2^e <= num / den < 2^(e + 1), and
\* whether num / den is that power of two
RECURSIVE Exponent(_, _, _)
Exponent(num, den, e) ==
    IF num >= 2 * den THEN Exponent(num, 2 * den, e + 1)
    ELSE IF num < den THEN Exponent(2 * num, den, e - 1)
    ELSE [e |-> e, exact |-> num = den]

\* the float nearest to D / (10 n) + E / (5 n 2^Scale), D >= 0, given as the
\* error of that float from D / (10 n) in the same units
Nearest(D, E, n) ==
    IF D = 0 THEN 0
    ELSE LET x == Exponent(D, 10 * n, 0)
             e == IF x.exact /\ E < 0 THEN x.e - 1 ELSE x.e
             k == FractionBits - e
             ulp == Pow2(Scale - k)
             m == 5 * n * ulp
             rem == (ulp * (((D % (5 * n)) * Pow2Mod(k - 1, 5 * n)) % (5 * n)) + E) % m
             rem2 == (ulp * (((D % (10 * n)) * Pow2Mod(k - 1, 10 * n)) % (10 * n)) + E)
                         % (2 * m)
         IN  IF 2 * rem < m THEN E - rem
             ELSE IF 2 * rem > m THEN E + m - rem
             ELSE IF rem2 = rem THEN E - rem ELSE E + m - rem

\* round(x, 1) where x is a float whose exact decimal neighbourhood is known:
\* q tenths plus r / n of a tenth, the float off that by an error of sign E
RoundTie(q, r, n, E) ==
    IF 2 * r < n THEN q
    ELSE IF 2 * r > n THEN q + 1
    ELSE IF E < 0 THEN q
    ELSE IF E > 0 THEN q + 1
    ELSE IF q % 2 = 0 THEN q ELSE q + 1

\* round(float(value), 1) of a decimal text of h hundredths, h >= 0, result
\* in tenths
Round1(h) == RoundTie(h \div 10, h % 10, 10, Nearest(h, 0, 10))

\* sum(values), values the floats nearest to so many tenths: the builtin adds
\* from the left, rounding after every addition. D is the exact sum of the
\* tenths so far, the result the error of the float sum from it.
RECURSIVE FloatSum(_, _, _)
FloatSum(values, D, E) ==
    IF values = <<>> THEN E
    ELSE LET t == Head(values)
         IN  FloatSum(Tail(values), D + t, Nearest(D + t, E + Nearest(t, 0, 1), 1))

\* the sum of the numbers themselves, without rounding
RECURSIVE Sum(_)
Sum(values) == IF values = <<>> THEN 0 ELSE Head(values) + Sum(Tail(values))

\* a mean cut after its first decimal instead of rounded
RoundMean1_Truncate(values) == Sum(values) \div Len(values)

\* round(sum(values) / len(values), 1), values given in tenths
RoundMean1(values) ==
    LET D == Sum(values)
        n == Len(values)
    IN  RoundTie(D \div n, D % n, n, Nearest(D, FloatSum(values, 0, 0), n))

\* round(minutes / 60, 2), result in hundredths of an hour: 5m/3 is never
\* half-way between two integers
Round2Hours(minutes) == (10 * minutes + 3) \div 6

-----------------------------------------------------------------------------
(* The extractors.  Each reads the clock once, walks the records of its type
   in document order and either returns the list it built or raises at the
   first record whose value it cannot convert. *)

SleepType == "HKCategoryTypeIdentifierSleepAnalysis"
HeartRateType == "HKQuantityTypeIdentifierHeartRate"
RestingType == "HKQuantityTypeIdentifierRestingHeartRate"
HRVType == "HKQuantityTypeIdentifierHeartRateVariabilitySDNN"

\* root.findall('.//Record[@type="..."]')
FindAll(doc, type) == SelectSeq(doc, LAMBDA record : record.type = type)

\* cutoff_date = now - timedelta(days=days_back)
CutoffDate(now, days) == now - days * MinutesPerDay

\* the guard of every extractor: `not start_date or start_date < cutoff_date`
OutOfWindow(start_date, cutoff_date) ==
    start_date.t = "None" \/ start_date.v < cutoff_date

\* a session filed under the date it ends on
SleepSession_EndDate(start_date, end_date, value) ==
    LET duration_minutes == end_date.v - start_date.v
    IN  [date |-> DateOf(end_date.v),
         start_time |-> StrfTime(start_date.v),
         end_time |-> StrfTime(end_date.v),
         duration_minutes |-> duration_minutes,
         duration_hours |-> Round2Hours(duration_minutes),
         type |-> StripPrefix(value)]

\* the dictionary process_sleep_data appends for one record
SleepSession(start_date, end_date, value) ==
    LET duration_minutes == end_date.v - start_date.v
    IN  [date |-> DateOf(start_date.v),
         start_time |-> StrfTime(start_date.v),
         end_time |-> StrfTime(end_date.v),
         duration_minutes |-> duration_minutes,
         duration_hours |-> Round2Hours(duration_minutes),
         type |-> StripPrefix(value)]

RECURSIVE SleepLoop(_, _, _)
SleepLoop(records, cutoff_date, acc) ==
    IF records = <<>> \/ acc.raised THEN acc
    ELSE LET record == Head(records)
             start_date == parse_date(record.startDate)
             end_date == parse_date(record.endDate)
         IN  IF OutOfWindow(start_date, cutoff_date) \/ end_date.t = "None"
             THEN SleepLoop(Tail(records), cutoff_date, acc)
             ELSE IF ReplaceRaises(record.value)
             THEN [acc EXCEPT !.raised = TRUE]
             ELSE SleepLoop(Tail(records), cutoff_date,
                      [acc EXCEPT !.out = Append(@,
                          SleepSession(start_date, end_date, record.value))])

\* the dictionary a cardiac extractor appends for one record; the three
\* extractors differ only in the key that holds the rounded value
Measurement(start_date, value) ==
    [datetime |-> StrfTime(start_date.v),
     date |-> DateOf(start_date.v),
     value |-> Round1(value.num)]

RECURSIVE CardiacLoop(_, _, _)
CardiacLoop(records, cutoff_date, acc) ==
    IF records = <<>> \/ acc.raised THEN acc
    ELSE LET record == Head(records)
             start_date == parse_date(record.startDate)
         IN  IF OutOfWindow(start_date, cutoff_date)
             THEN CardiacLoop(Tail(records), cutoff_date, acc)
             ELSE IF FloatRaises(record.value)
             THEN [acc EXCEPT !.raised = TRUE]
             ELSE CardiacLoop(Tail(records), cutoff_date,
                      [acc EXCEPT !.out = Append(@,
                          Measurement(start_date, record.value))])

NoneYet == [raised |-> FALSE, out |-> <<>>]

\* main()'s `except Exception`: print the error and sys.exit(1)
Abort ==
    /\ pc' = "failed"
    /\ exit_code' = 1

\* the wall clock when main() starts (day 0 being 2024-01-01), and the bound
\* on its advance
Now0 == At(DefaultDaysBack, 12, 0)
ClockLimit == Now0 + MaxAdvance

\* datetime.now() in an extractor: the clock has moved on by tick minutes
\* since it was last read
Tick(tick) ==
    /\ clock + tick <= ClockLimit
    /\ clock' = clock + tick

process_sleep_data ==
    /\ pc = "process_sleep_data"
    /\ \E tick \in 0..MaxAdvance :
        /\ Tick(tick)
        /\ LET cutoff_date == CutoffDate(clock + tick, days_back)
               res == SleepLoop(FindAll(root, SleepType), cutoff_date, NoneYet)
           IN  /\ cutoffs' = Append(cutoffs, cutoff_date)
               /\ IF res.raised
                  THEN Abort /\ UNCHANGED sleep_sessions
                  ELSE /\ sleep_sessions' = res.out
                       /\ pc' = "process_heart_rate_data"
                       /\ UNCHANGED exit_code
    /\ UNCHANGED <<root, days_back, heart_rates, resting_hrs, hrvs,
                   daily_sleep, daily_heart, combined_data>>

process_heart_rate_data ==
    /\ pc = "process_heart_rate_data"
    /\ \E tick \in 0..MaxAdvance :
        /\ Tick(tick)
        /\ LET cutoff_date == CutoffDate(clock + tick, days_back)
               res == CardiacLoop(FindAll(root, HeartRateType), cutoff_date, NoneYet)
           IN  /\ cutoffs' = Append(cutoffs, cutoff_date)
               /\ IF res.raised
                  THEN Abort /\ UNCHANGED heart_rates
                  ELSE /\ heart_rates' = res.out
                       /\ pc' = "process_resting_heart_rate"
                       /\ UNCHANGED exit_code
    /\ UNCHANGED <<root, days_back, sleep_sessions, resting_hrs, hrvs,
                   daily_sleep, daily_heart, combined_data>>

process_resting_heart_rate ==
    /\ pc = "process_resting_heart_rate"
    /\ \E tick \in 0..MaxAdvance :
        /\ Tick(tick)
        /\ LET cutoff_date == CutoffDate(clock + tick, days_back)
               res == CardiacLoop(FindAll(root, RestingType), cutoff_date, NoneYet)
           IN  /\ cutoffs' = Append(cutoffs, cutoff_date)
               /\ IF res.raised
                  THEN Abort /\ UNCHANGED resting_hrs
                  ELSE /\ resting_hrs' = res.out
                       /\ pc' = "process_hrv_data"
                       /\ UNCHANGED exit_code
    /\ UNCHANGED <<root, days_back, sleep_sessions, heart_rates, hrvs,
                   daily_sleep, daily_heart, combined_data>>

process_hrv_data ==
    /\ pc = "process_hrv_data"
    /\ \E tick \in 0..MaxAdvance :
        /\ Tick(tick)
        /\ LET cutoff_date == CutoffDate(clock + tick, days_back)
               res == CardiacLoop(FindAll(root, HRVType), cutoff_date, NoneYet)
           IN  /\ cutoffs' = Append(cutoffs, cutoff_date)
               /\ IF res.raised
                  THEN Abort /\ UNCHANGED hrvs
                  ELSE /\ hrvs' = res.out
                       /\ pc' = "aggregate_daily_sleep"
                       /\ UNCHANGED exit_code
    /\ UNCHANGED <<root, days_back, sleep_sessions, heart_rates, resting_hrs,
                   daily_sleep, daily_heart, combined_data>>

-----------------------------------------------------------------------------
(* The aggregators.  A defaultdict is the sequence of its entries in
   insertion order, which is the order its values() are read in. *)

\* position of the entry of a date, 0 when the dictionary has none
IndexOf(entries, date) ==
    IF \E i \in 1..Len(entries) : entries[i].date = date
    THEN CHOOSE i \in 1..Len(entries) : entries[i].date = date
    ELSE 0

\* sorted(list, key=lambda x: x['date']): a stable insertion sort
RECURSIVE InsertByDate(_, _)
InsertByDate(sorted, x) ==
    IF sorted = <<>> THEN <<x>>
    ELSE IF x.date < Head(sorted).date THEN <<x>> \o sorted
    ELSE <<Head(sorted)>> \o InsertByDate(Tail(sorted), x)

RECURSIVE SortedByDate(_)
SortedByDate(list) ==
    IF list = <<>> THEN <<>>
    ELSE InsertByDate(SortedByDate(SubSeq(list, 1, Len(list) - 1)), list[Len(list)])

RECURSIVE Min(_)
Min(values) ==
    IF Len(values) = 1 THEN Head(values)
    ELSE LET m == Min(Tail(values)) IN IF Head(values) <= m THEN Head(values) ELSE m

RECURSIVE Max(_)
Max(values) ==
    IF Len(values) = 1 THEN Head(values)
    ELSE LET m == Max(Tail(values)) IN IF Head(values) >= m THEN Head(values) ELSE m

\* a default entry whose statistics start at zero
HeartDefault_Zero(date) ==
    [date |-> date, hr_avg |-> Tenths(0), hr_min |-> Tenths(0), hr_max |-> Tenths(0),
     hr_count |-> Count(0), resting_hr |-> None, hrv |-> None, hr_values |-> <<>>]

\* the default entry of daily_data, with its date set and, for an entry that a
\* heart rate creates, the empty hr_values list
HeartDefault(date) ==
    [date |-> date, hr_avg |-> None, hr_min |-> None, hr_max |-> None,
     hr_count |-> Count(0), resting_hr |-> None, hrv |-> None, hr_values |-> <<>>]

\* daily_data[date], created on first use
Touch(daily_data, date) ==
    IF IndexOf(daily_data, date) = 0
    THEN Append(daily_data, HeartDefault(date))
    ELSE daily_data

\* `for hr in heart_rates`: collect the values of each day
RECURSIVE HeartRateLoop(_, _)
HeartRateLoop(list, daily_data) ==
    IF list = <<>> THEN daily_data
    ELSE LET hr == Head(list)
             d == Touch(daily_data, hr.date)
             i == IndexOf(d, hr.date)
         IN  HeartRateLoop(Tail(list),
                 [d EXCEPT ![i].hr_values = Append(@, hr.value)])

\* `for date in daily_data`: the statistics of a day that has hr_values
HeartStats(entry) ==
    IF entry.hr_values # <<>>
    THEN [entry EXCEPT
            !.hr_avg = Tenths(RoundMean1(entry.hr_values)),
            !.hr_min = Tenths(Min(entry.hr_values)),
            !.hr_max = Tenths(Max(entry.hr_values)),
            !.hr_count = Count(Len(entry.hr_values)),
            !.hr_values = <<>>]
    ELSE entry

\* a loop that keeps the first resting heart rate of a day
RECURSIVE RestingLoop_FirstWins(_, _)
RestingLoop_FirstWins(list, daily_data) ==
    IF list = <<>> THEN daily_data
    ELSE LET rhr == Head(list)
             d == Touch(daily_data, rhr.date)
             i == IndexOf(d, rhr.date)
         IN  RestingLoop_FirstWins(Tail(list),
                 [d EXCEPT ![i].resting_hr =
                     IF @ = None THEN Tenths(rhr.value) ELSE @])

\* `for rhr in resting_hrs`
RECURSIVE RestingLoop(_, _)
RestingLoop(list, daily_data) ==
    IF list = <<>> THEN daily_data
    ELSE LET rhr == Head(list)
             d == Touch(daily_data, rhr.date)
             i == IndexOf(d, rhr.date)
         IN  RestingLoop(Tail(list), [d EXCEPT ![i].resting_hr = Tenths(rhr.value)])

\* `for hrv in hrvs`
RECURSIVE HrvLoop(_, _)
HrvLoop(list, daily_data) ==
    IF list = <<>> THEN daily_data
    ELSE LET hrv == Head(list)
             d == Touch(daily_data, hrv.date)
             i == IndexOf(d, hrv.date)
         IN  HrvLoop(Tail(list), [d EXCEPT ![i].hrv = Tenths(hrv.value)])

\* an entry as returned: hr_values was deleted, or never there
HeartSummary(entry) ==
    [date |-> entry.date, hr_avg |-> entry.hr_avg, hr_min |-> entry.hr_min,
     hr_max |-> entry.hr_max, hr_count |-> entry.hr_count,
     resting_hr |-> entry.resting_hr, hrv |-> entry.hrv]

AggregateHeart(hr_list, rhr_list, hrv_list) ==
    LET collected == HeartRateLoop(hr_list, <<>>)
        stats == [i \in 1..Len(collected) |-> HeartStats(collected[i])]
        rested == RestingLoop(rhr_list, stats)
        all == HrvLoop(hrv_list, rested)
    IN  SortedByDate([i \in 1..Len(all) |-> HeartSummary(all[i])])

\* the default entry of daily_sleep, with its date set. The accumulators
\* start as the int 0 and become floats with the first duration added; only
\* total_awake_minutes reaches the output without a division, so only there
\* is the difference kept.
SleepDefault(date) ==
    [date |-> date, total_in_bed_minutes |-> 0, total_asleep_minutes |-> 0,
     total_awake_minutes |-> Count(0), core_sleep_minutes |-> 0,
     deep_sleep_minutes |-> 0, rem_sleep_minutes |-> 0,
     bedtime |-> None, wake_time |-> None]

\* a chain whose final else counts a session of any other type as asleep
Categorize_ElseAsleep(entry, sleep_type, duration) ==
    IF sleep_type = "InBed"
    THEN [entry EXCEPT !.total_in_bed_minutes = @ + duration]
    ELSE IF sleep_type = "Awake"
    THEN [entry EXCEPT !.total_awake_minutes = Minutes(@.v + duration)]
    ELSE IF sleep_type \in {"Core", "AsleepCore"}
    THEN [entry EXCEPT !.core_sleep_minutes = @ + duration]
    ELSE IF sleep_type \in {"Deep", "AsleepDeep"}
    THEN [entry EXCEPT !.deep_sleep_minutes = @ + duration]
    ELSE IF sleep_type \in {"REM", "AsleepREM"}
    THEN [entry EXCEPT !.rem_sleep_minutes = @ + duration]
    ELSE [entry EXCEPT !.total_asleep_minutes = @ + duration]

\* the if/elif chain that adds a session's duration to the bucket of its type
Categorize(entry, sleep_type, duration) ==
    IF sleep_type = "InBed"
    THEN [entry EXCEPT !.total_in_bed_minutes = @ + duration]
    ELSE IF sleep_type \in {"Asleep", "AsleepUnspecified"}
    THEN [entry EXCEPT !.total_asleep_minutes = @ + duration]
    ELSE IF sleep_type = "Awake"
    THEN [entry EXCEPT !.total_awake_minutes = Minutes(@.v + duration)]
    ELSE IF sleep_type \in {"Core", "AsleepCore"}
    THEN [entry EXCEPT !.core_sleep_minutes = @ + duration]
    ELSE IF sleep_type \in {"Deep", "AsleepDeep"}
    THEN [entry EXCEPT !.deep_sleep_minutes = @ + duration]
    ELSE IF sleep_type \in {"REM", "AsleepREM"}
    THEN [entry EXCEPT !.rem_sleep_minutes = @ + duration]
    ELSE entry

\* times taken from the first session of a date and never updated
TrackTimes_FirstOnly(entry, start_time, end_time) ==
    [entry EXCEPT
        !.bedtime = IF @.t = "None" THEN DateTime(start_time) ELSE @,
        !.wake_time = IF @.t = "None" THEN DateTime(end_time) ELSE @]

\* "Track earliest bedtime and latest wake time"
TrackTimes(entry, start_time, end_time) ==
    [entry EXCEPT
        !.bedtime = IF @.t = "None" \/ start_time < @.v THEN DateTime(start_time) ELSE @,
        !.wake_time = IF @.t = "None" \/ end_time > @.v THEN DateTime(end_time) ELSE @]

\* `for session in sleep_sessions`
RECURSIVE SessionLoop(_, _)
SessionLoop(list, sleep_dict) ==
    IF list = <<>> THEN sleep_dict
    ELSE LET session == Head(list)
             d == IF IndexOf(sleep_dict, session.date) = 0
                  THEN Append(sleep_dict, SleepDefault(session.date))
                  ELSE sleep_dict
             i == IndexOf(d, session.date)
             tracked == TrackTimes(d[i], StrpTime(session.start_time),
                                   StrpTime(session.end_time))
         IN  SessionLoop(Tail(list),
                 [d EXCEPT ![i] = Categorize(tracked, session.type,
                                             session.duration_minutes)])

\* round(total_awake_minutes, 1): round() of an int is that int, of a float
\* a float, given here in tenths
RoundMinutes1(total) ==
    IF total.t = "count" THEN Count(total.v) ELSE Tenths(10 * total.v)

\* "Format the data": the summary built from one entry
SleepSummary(date_data) ==
    [date |-> date_data.date,
     bedtime |-> IF date_data.bedtime.t # "None"
                 THEN StrfHM(date_data.bedtime.v) ELSE Empty,
     wake_time |-> IF date_data.wake_time.t # "None"
                   THEN StrfHM(date_data.wake_time.v) ELSE Empty,
     time_in_bed_hours |-> Hundredths(Round2Hours(date_data.total_in_bed_minutes)),
     total_sleep_hours |-> Hundredths(Round2Hours(
         date_data.total_asleep_minutes + date_data.core_sleep_minutes +
         date_data.deep_sleep_minutes + date_data.rem_sleep_minutes)),
     awake_minutes |-> RoundMinutes1(date_data.total_awake_minutes),
     core_sleep_hours |-> Hundredths(Round2Hours(date_data.core_sleep_minutes)),
     deep_sleep_hours |-> Hundredths(Round2Hours(date_data.deep_sleep_minutes)),
     rem_sleep_hours |-> Hundredths(Round2Hours(date_data.rem_sleep_minutes))]

AggregateSleep(sessions) ==
    LET filled == SessionLoop(sessions, <<>>)
    IN  SortedByDate([i \in 1..Len(filled) |-> SleepSummary(filled[i])])

aggregate_daily_sleep ==
    /\ pc = "aggregate_daily_sleep"
    /\ daily_sleep' = AggregateSleep(sleep_sessions)
    /\ pc' = "aggregate_daily_heart_data"
    /\ UNCHANGED <<root, days_back, clock, cutoffs, sleep_sessions, heart_rates,
                   resting_hrs, hrvs, daily_heart, combined_data, exit_code>>

aggregate_daily_heart_data ==
    /\ pc = "aggregate_daily_heart_data"
    /\ daily_heart' = AggregateHeart(heart_rates, resting_hrs, hrvs)
    /\ pc' = "generate_spreadsheet"
    /\ UNCHANGED <<root, days_back, clock, cutoffs, sleep_sessions, heart_rates,
                   resting_hrs, hrvs, daily_sleep, combined_data, exit_code>>

-----------------------------------------------------------------------------
(* The merger *)

\* {x['date']: x for x in list}[date]: the last element of that date
ByDate(list, date) ==
    list[CHOOSE i \in 1..Len(list) :
            /\ list[i].date = date
            /\ \A j \in (i + 1)..Len(list) : list[j].date # date]

Dates(list) == {list[i].date : i \in 1..Len(list)}

\* sorted(all_dates)
RECURSIVE SortedDates(_)
SortedDates(all_dates) ==
    IF all_dates = {} THEN <<>>
    ELSE LET least == CHOOSE d \in all_dates : \A e \in all_dates : d <= e
         IN  <<least>> \o SortedDates(all_dates \ {least})

\* a row whose missing cardiac summary counts as zero measurements
CombinedRow_ZeroCount(date, sleep_data, heart_data) ==
    LET has_sleep == date \in Dates(sleep_data)
        has_heart == date \in Dates(heart_data)
        s == ByDate(sleep_data, date)
        h == ByDate(heart_data, date)
    IN  [date |-> date,
         bedtime |-> IF has_sleep THEN s.bedtime ELSE Empty,
         wake_time |-> IF has_sleep THEN s.wake_time ELSE Empty,
         time_in_bed_hours |-> IF has_sleep THEN s.time_in_bed_hours ELSE Empty,
         total_sleep_hours |-> IF has_sleep THEN s.total_sleep_hours ELSE Empty,
         awake_minutes |-> IF has_sleep THEN s.awake_minutes ELSE Empty,
         core_sleep_hours |-> IF has_sleep THEN s.core_sleep_hours ELSE Empty,
         deep_sleep_hours |-> IF has_sleep THEN s.deep_sleep_hours ELSE Empty,
         rem_sleep_hours |-> IF has_sleep THEN s.rem_sleep_hours ELSE Empty,
         hr_avg |-> IF has_heart THEN h.hr_avg ELSE Empty,
         hr_min |-> IF has_heart THEN h.hr_min ELSE Empty,
         hr_max |-> IF has_heart THEN h.hr_max ELSE Empty,
         hr_measurements |-> IF has_heart THEN h.hr_count ELSE Count(0),
         resting_hr |-> IF has_heart THEN h.resting_hr ELSE Empty,
         hrv_sdnn |-> IF has_heart THEN h.hrv ELSE Empty]

\* the row of one date
CombinedRow(date, sleep_data, heart_data) ==
    LET has_sleep == date \in Dates(sleep_data)
        has_heart == date \in Dates(heart_data)
        s == ByDate(sleep_data, date)
        h == ByDate(heart_data, date)
    IN  [date |-> date,
         bedtime |-> IF has_sleep THEN s.bedtime ELSE Empty,
         wake_time |-> IF has_sleep THEN s.wake_time ELSE Empty,
         time_in_bed_hours |-> IF has_sleep THEN s.time_in_bed_hours ELSE Empty,
         total_sleep_hours |-> IF has_sleep THEN s.total_sleep_hours ELSE Empty,
         awake_minutes |-> IF has_sleep THEN s.awake_minutes ELSE Empty,
         core_sleep_hours |-> IF has_sleep THEN s.core_sleep_hours ELSE Empty,
         deep_sleep_hours |-> IF has_sleep THEN s.deep_sleep_hours ELSE Empty,
         rem_sleep_hours |-> IF has_sleep THEN s.rem_sleep_hours ELSE Empty,
         hr_avg |-> IF has_heart THEN h.hr_avg ELSE Empty,
         hr_min |-> IF has_heart THEN h.hr_min ELSE Empty,
         hr_max |-> IF has_heart THEN h.hr_max ELSE Empty,
         hr_measurements |-> IF has_heart THEN h.hr_count ELSE Empty,
         resting_hr |-> IF has_heart THEN h.resting_hr ELSE Empty,
         hrv_sdnn |-> IF has_heart THEN h.hrv ELSE Empty]

\* an inner join: only the dates that both inputs have
CombinedData_InnerJoin(sleep_data, heart_data) ==
    LET all_dates == Dates(sleep_data) \cap Dates(heart_data)
        order == SortedDates(all_dates)
    IN  [i \in 1..Len(order) |-> CombinedRow(order[i], sleep_data, heart_data)]

CombinedData(sleep_data, heart_data) ==
    LET all_dates == Dates(sleep_data) \cup Dates(heart_data)
        order == SortedDates(all_dates)
    IN  [i \in 1..Len(order) |-> CombinedRow(order[i], sleep_data, heart_data)]

generate_spreadsheet ==
    /\ pc = "generate_spreadsheet"
    /\ combined_data' = CombinedData(daily_sleep, daily_heart)
    /\ pc' = "done"
    /\ exit_code' = 0
    /\ UNCHANGED <<root, days_back, clock, cutoffs, sleep_sessions, heart_rates,
                   resting_hrs, hrvs, daily_sleep, daily_heart>>

-----------------------------------------------------------------------------
(* The exports that Init draws from *)

Record(type, startDate, endDate, value) ==
    [type |-> type, startDate |-> startDate, endDate |-> endDate, value |-> value]

Sleep(d1, h1, m1, d2, h2, m2, name) ==
    Record(SleepType, DateAttr(d1, h1, m1, -800), DateAttr(d2, h2, m2, -800),
           Category(name))

Cardiac(type, d, h, m, value) ==
    Record(type, DateAttr(d, h, m, 100), DateAttr(d, h, m, 100), value)

\* the two sessions of the night of 2024-01-01
CoreSession == Sleep(0, 23, 0, 1, 0, 30, "Core")
DeepSession == Sleep(1, 0, 30, 1, 6, 30, "Deep")

SleepPool ==
    { CoreSession, DeepSession,
      Sleep(0, 22, 0, 1, 7, 0, "InBed"),
      Sleep(1, 6, 30, 1, 7, 10, "Awake"),
      Sleep(0, 21, 30, 1, 7, 30, "Restless"),
      Sleep(1, 2, 0, 1, 3, 40, "AsleepREM"),
      Sleep(1, 1, 0, 1, 1, 20, "AsleepUnspecified"),
      Sleep(0, 8, 0, 0, 9, 0, "Deep"),
      Sleep(1, 5, 0, 1, 4, 50, "AsleepCore"),
      Record(SleepType, DateAttr(1, 4, 0, -800), BadDateAttr, Category("REM")) }

\* measurements of the three cardiac types. 60.45, 57.75 and 52.25 lie half-way
\* between two tenths, the first of them not a float; the mean of 60.4 and
\* 60.5 lies half-way again. One heart rate is older than the window.
CardiacPool ==
    { Cardiac(HeartRateType, 1, 8, 0, Number(6000)),
      Cardiac(HeartRateType, 1, 9, 0, Number(6045)),
      Cardiac(HeartRateType, 1, 10, 0, Number(7000)),
      Cardiac(HeartRateType, 1, 11, 0, Number(8000)),
      Cardiac(HeartRateType, 1, 12, 0, Number(6040)),
      Cardiac(HeartRateType, 0, 8, 0, Number(9900)),
      Cardiac(RestingType, 1, 9, 0, Number(5500)),
      Cardiac(RestingType, 1, 8, 0, Number(5800)),
      Cardiac(RestingType, 2, 7, 0, Number(5775)),
      Cardiac(HRVType, 1, 3, 0, Number(4050)),
      Cardiac(HRVType, 1, 4, 0, Number(3533)),
      Cardiac(HRVType, 3, 4, 0, Number(5225)) }

\* records of all four types, some starting on the very minute of the
\* default cutoff, some with a value that cannot be converted
MixedPool ==
    { CoreSession, DeepSession,
      Sleep(0, 12, 0, 0, 12, 40, "Asleep"),
      Record(SleepType, DateAttr(1, 22, 0, -800), DateAttr(1, 23, 0, -800), Absent),
      Cardiac(HeartRateType, 0, 12, 0, Number(6000)),
      Cardiac(HeartRateType, 1, 13, 0, Number(7000)),
      Cardiac(HeartRateType, 1, 14, 0, Garbage),
      Cardiac(HeartRateType, 0, 8, 0, Absent),
      Cardiac(RestingType, 2, 9, 0, Number(5500)),
      Cardiac(RestingType, 1, 9, 30, Garbage),
      Cardiac(HRVType, 0, 13, 0, Number(4050)),
      Record(HRVType, BadDateAttr, BadDateAttr, Number(3000)) }

\* the exports of at most MaxRecords records over a pool
Exports(pool) == UNION { [1..n -> pool] : n \in 0..MaxRecords }

\* main() up to the first extractor: the arguments are parsed, the file is read
Start(exports, days, now) ==
    /\ root \in exports
    /\ days_back \in days
    /\ clock = now
    /\ pc = "process_sleep_data"
    /\ cutoffs = <<>>
    /\ sleep_sessions = <<>>
    /\ heart_rates = <<>>
    /\ resting_hrs = <<>>
    /\ hrvs = <<>>
    /\ daily_sleep = <<>>
    /\ daily_heart = <<>>
    /\ combined_data = <<>>
    /\ exit_code = -1

\* an export of records of all types, with --days 29 or the default
Init == Start(Exports(MixedPool), {DefaultDaysBack - 1, DefaultDaysBack}, Now0)

\* an export of sleep records only
InitSleep == Start(Exports(SleepPool), {DefaultDaysBack}, Now0)

\* an export of cardiac records only
InitHeart == Start(Exports(CardiacPool), {DefaultDaysBack}, Now0)

Next ==
    \/ process_sleep_data
    \/ process_heart_rate_data
    \/ process_resting_heart_rate
    \/ process_hrv_data
    \/ aggregate_daily_sleep
    \/ aggregate_daily_heart_data
    \/ generate_spreadsheet

Spec == Init /\ [][Next]_vars
SpecSleep == InitSleep /\ [][Next]_vars
SpecHeart == InitHeart /\ [][Next]_vars

-----------------------------------------------------------------------------
(* Properties *)

SleepAggregated == pc \in {"aggregate_daily_heart_data", "generate_spreadsheet", "done"}
HeartAggregated == pc \in {"generate_spreadsheet", "done"}

RowDates == {combined_data[i].date : i \in 1..Len(combined_data)}
SleepOnly(date) == date \in Dates(daily_sleep) \ Dates(daily_heart)
HeartOnly(date) == date \in Dates(daily_heart) \ Dates(daily_sleep)

\* C1: the dates of the combined rows, in output order, are the union of the
\* dates of the sleep summaries and of the cardiac summaries in strictly
\* ascending order, each date once.
C1_OuterJoin ==
    pc = "done" =>
        /\ RowDates = Dates(daily_sleep) \cup Dates(daily_heart)
        /\ \A i, j \in 1..Len(combined_data) :
              i < j => combined_data[i].date < combined_data[j].date

C1_Witness ==
    /\ pc = "done"
    /\ \E d \in RowDates : SleepOnly(d)
    /\ \E d \in RowDates : HeartOnly(d)
    /\ Len(combined_data) >= 2

TheSummary(list, date) == CHOOSE x \in {list[i] : i \in 1..Len(list)} : x.date = date

SleepFieldsOf(r) ==
    <<r.bedtime, r.wake_time, r.time_in_bed_hours, r.total_sleep_hours,
      r.awake_minutes, r.core_sleep_hours, r.deep_sleep_hours, r.rem_sleep_hours>>
AllEmpty(n) == [i \in 1..n |-> Empty]

\* C2: a row of a date that only the sleep summaries have carries the absent
\* marker in its six cardiac fields, a row of a date that only the cardiac
\* summaries have carries it in its eight sleep fields, and the fields of a
\* summary that is present are copied unchanged.
C2_AbsentFields ==
    pc = "done" =>
        \A i \in 1..Len(combined_data) :
            LET row == combined_data[i] IN
            /\ IF row.date \in Dates(daily_heart)
               THEN LET h == TheSummary(daily_heart, row.date)
                    IN  <<row.hr_avg, row.hr_min, row.hr_max, row.hr_measurements,
                          row.resting_hr, row.hrv_sdnn>>
                        = <<h.hr_avg, h.hr_min, h.hr_max, h.hr_count, h.resting_hr, h.hrv>>
               ELSE <<row.hr_avg, row.hr_min, row.hr_max, row.hr_measurements,
                      row.resting_hr, row.hrv_sdnn>> = AllEmpty(6)
            /\ IF row.date \in Dates(daily_sleep)
               THEN SleepFieldsOf(row) = SleepFieldsOf(TheSummary(daily_sleep, row.date))
               ELSE SleepFieldsOf(row) = AllEmpty(8)

C2_Witness ==
    /\ pc = "done"
    /\ \E i, j \in 1..Len(combined_data) :
        /\ SleepOnly(combined_data[i].date)
        /\ combined_data[i].hrv_sdnn = Empty
        /\ combined_data[i].total_sleep_hours.v > 0
        /\ HeartOnly(combined_data[j].date)
        /\ combined_data[j].bedtime = Empty
        /\ combined_data[j].hr_measurements.v > 0

\* the sessions and measurements extracted all start at or after a cutoff
NothingBefore(cutoff_date) ==
    /\ \A i \in 1..Len(sleep_sessions) :
          StrpTime(sleep_sessions[i].start_time) >= cutoff_date
    /\ \A list \in {heart_rates, resting_hrs, hrvs} :
          \A i \in 1..Len(list) : StrpTime(list[i].datetime) >= cutoff_date

\* the records of a type that start at or after a cutoff
InWindow(type, cutoff_date) ==
    SelectSeq(FindAll(root, type), LAMBDA record :
        /\ parse_date(record.startDate).t # "None"
        /\ type = SleepType => parse_date(record.endDate).t # "None"
        /\ parse_date(record.startDate).v >= cutoff_date)

\* C3: one reference time `now` bounds all four extractors of a run: no
\* record of any kind that starts before now - days_back is extracted, so
\* that it reaches no summary and no row, and the four extractors keep the
\* records of the same window.
C3_OneWindow ==
    pc = "done" =>
        \E now \in Now0..ClockLimit :
            LET cutoff_date == CutoffDate(now, days_back) IN
            /\ NothingBefore(cutoff_date)
            /\ Len(sleep_sessions) = Len(InWindow(SleepType, cutoff_date))
            /\ Len(heart_rates) = Len(InWindow(HeartRateType, cutoff_date))
            /\ Len(resting_hrs) = Len(InWindow(RestingType, cutoff_date))
            /\ Len(hrvs) = Len(InWindow(HRVType, cutoff_date))

\* the records of a type that an extractor can convert
Convertible(type) ==
    SelectSeq(FindAll(root, type), LAMBDA record : ~FloatRaises(record.value))

\* C4: a cardiac record with a missing or non-numeric value is skipped alone:
\* the run does not abort on it, the other records are extracted and the rows
\* are produced.
C4_SkipsBadRecord ==
    /\ pc = "failed" => Len(cutoffs) = 1
    /\ pc = "done" =>
        /\ heart_rates = CardiacLoop(Convertible(HeartRateType), cutoffs[2], NoneYet).out
        /\ resting_hrs = CardiacLoop(Convertible(RestingType), cutoffs[3], NoneYet).out
        /\ hrvs = CardiacLoop(Convertible(HRVType), cutoffs[4], NoneYet).out

-----------------------------------------------------------------------------
(* Properties of the daily cardiac summaries *)

\* the measurements of a list that fall on a date, in input order
On(list, date) == SelectSeq(list, LAMBDA m : m.date = date)

\* the value that the last measurement of a date carries, None without one
LastOn(list, date) ==
    LET on == On(list, date)
    IN  IF on = <<>> THEN None ELSE Tenths(on[Len(on)].value)

\* C5: resting_hr of a day is the value of the last resting heart rate
\* measurement of that day in input order, and hrv the value of its last HRV
\* measurement, whatever their number and their timestamps.
C5_LastWriteWins ==
    HeartAggregated =>
        \A i \in 1..Len(daily_heart) :
            /\ daily_heart[i].resting_hr = LastOn(resting_hrs, daily_heart[i].date)
            /\ daily_heart[i].hrv = LastOn(hrvs, daily_heart[i].date)

\* two resting measurements of one day, the one read last being the earlier
\* and the larger, and its value in the summary
C5_Witness ==
    /\ HeartAggregated
    /\ \E i \in 1..Len(daily_heart) :
        LET on == On(resting_hrs, daily_heart[i].date) IN
        /\ Len(on) = 2
        /\ StrpTime(on[2].datetime) < StrpTime(on[1].datetime)
        /\ on[1].value = 550
        /\ on[2].value = 580
        /\ daily_heart[i].resting_hr = Tenths(580)

\* C7 as claimed: a day with resting heart rate or HRV measurements and no
\* heart rate measurement has hr_avg, hr_min, hr_max and hr_count all absent.
C7_AllAbsent ==
    HeartAggregated =>
        \A i \in 1..Len(daily_heart) :
            On(heart_rates, daily_heart[i].date) = <<>> =>
                /\ daily_heart[i].hr_avg = None
                /\ daily_heart[i].hr_min = None
                /\ daily_heart[i].hr_max = None
                /\ daily_heart[i].hr_count = None

\* C7 amended: on such a day hr_avg, hr_min and hr_max are absent and
\* hr_count is the number 0, in the summary and in the row of that date.
C7_AbsentButCountZero ==
    HeartAggregated =>
        \A i \in 1..Len(daily_heart) :
            On(heart_rates, daily_heart[i].date) = <<>> =>
                /\ daily_heart[i].hr_avg = None
                /\ daily_heart[i].hr_min = None
                /\ daily_heart[i].hr_max = None
                /\ daily_heart[i].hr_count = Count(0)
                /\ pc = "done" =>
                      \E k \in 1..Len(combined_data) :
                          /\ combined_data[k].date = daily_heart[i].date
                          /\ combined_data[k].hr_avg = None
                          /\ combined_data[k].hr_min = None
                          /\ combined_data[k].hr_max = None
                          /\ combined_data[k].hr_measurements = Count(0)

C7_Witness ==
    /\ HeartAggregated
    /\ \E i \in 1..Len(daily_heart) :
        /\ On(heart_rates, daily_heart[i].date) = <<>>
        /\ daily_heart[i].resting_hr # None
        /\ daily_heart[i].hrv # None

\* the heart rate values of a date, in input order
ValuesOn(date) ==
    LET on == On(heart_rates, date) IN [i \in 1..Len(on) |-> on[i].value]

\* C9: with hr_count > 0, hr_count is the number of heart rate measurements
\* of the day, hr_min their least, hr_max their greatest and hr_avg their
\* mean rounded to one decimal (within half a tenth of it), and
\* hr_min <= hr_avg <= hr_max.
C9_MinAvgMax ==
    HeartAggregated =>
        \A i \in 1..Len(daily_heart) :
            LET h == daily_heart[i]
                values == ValuesOn(h.date)
                n == Len(values)
            IN  h.hr_count.v > 0 =>
                /\ h.hr_count = Count(n)
                /\ h.hr_min.t = "tenths" /\ h.hr_avg.t = "tenths" /\ h.hr_max.t = "tenths"
                /\ \E k \in 1..n : values[k] = h.hr_min.v
                /\ \E k \in 1..n : values[k] = h.hr_max.v
                /\ \A k \in 1..n : h.hr_min.v <= values[k] /\ values[k] <= h.hr_max.v
                /\ 2 * (n * h.hr_avg.v - Sum(values)) <= n
                /\ 2 * (Sum(values) - n * h.hr_avg.v) <= n
                /\ h.hr_min.v <= h.hr_avg.v
                /\ h.hr_avg.v <= h.hr_max.v

\* the values 60, 70, 80 of one day give 70.0, 60.0, 80.0 and the count 3
C9_Witness ==
    /\ HeartAggregated
    /\ \E i \in 1..Len(daily_heart) :
        /\ ValuesOn(daily_heart[i].date) = <<600, 700, 800>>
        /\ daily_heart[i].hr_avg = Tenths(700)
        /\ daily_heart[i].hr_min = Tenths(600)
        /\ daily_heart[i].hr_max = Tenths(800)
        /\ daily_heart[i].hr_count = Count(3)

-----------------------------------------------------------------------------
(* Properties of the nightly sleep summaries *)

HHMM(h, m) == [t |-> "HH:MM", v |-> h * 100 + m]

\* C6 as claimed: the two sessions of the night of 2024-01-01 make one
\* summary, of 2024-01-01: bedtime 23:00, wake_time 06:30, core 1.5 h,
\* deep 6.0 h, total 7.5 h.
C6_OneNight ==
    (SleepAggregated /\ root = <<CoreSession, DeepSession>>) =>
        /\ \A i \in 1..Len(sleep_sessions) : sleep_sessions[i].date = 0
        /\ Len(daily_sleep) = 1
        /\ daily_sleep[1].date = 0
        /\ daily_sleep[1].bedtime = HHMM(23, 0)
        /\ daily_sleep[1].wake_time = HHMM(6, 30)
        /\ daily_sleep[1].core_sleep_hours = Hundredths(150)
        /\ daily_sleep[1].deep_sleep_hours = Hundredths(600)
        /\ daily_sleep[1].total_sleep_hours = Hundredths(750)

\* C6 amended: the session that starts at 00:30 belongs to 2024-01-02, and
\* the two sessions make two summaries: 2024-01-01 with bedtime 23:00,
\* wake_time 00:30, core 1.5 h, deep 0 h, total 1.5 h, and 2024-01-02 with
\* bedtime 00:30, wake_time 06:30, core 0 h, deep 6.0 h, total 6.0 h.
C6_TwoNights ==
    (SleepAggregated /\ root = <<CoreSession, DeepSession>>) =>
        /\ sleep_sessions[1].date = 0
        /\ sleep_sessions[2].date = 1
        /\ Len(daily_sleep) = 2
        /\ daily_sleep[1].date = 0
        /\ daily_sleep[1].bedtime = HHMM(23, 0)
        /\ daily_sleep[1].wake_time = HHMM(0, 30)
        /\ daily_sleep[1].core_sleep_hours = Hundredths(150)
        /\ daily_sleep[1].deep_sleep_hours = Hundredths(0)
        /\ daily_sleep[1].total_sleep_hours = Hundredths(150)
        /\ daily_sleep[2].date = 1
        /\ daily_sleep[2].bedtime = HHMM(0, 30)
        /\ daily_sleep[2].wake_time = HHMM(6, 30)
        /\ daily_sleep[2].core_sleep_hours = Hundredths(0)
        /\ daily_sleep[2].deep_sleep_hours = Hundredths(600)
        /\ daily_sleep[2].total_sleep_hours = Hundredths(600)

C6_Witness ==
    /\ pc = "done"
    /\ root = <<CoreSession, DeepSession>>
    /\ Len(sleep_sessions) = 2
    /\ Len(combined_data) = 2

\* the sessions of a date, in input order
SessionsOn(date) == SelectSeq(sleep_sessions, LAMBDA s : s.date = date)

Starts(date) == {StrpTime(s.start_time) : s \in {SessionsOn(date)[i] : i \in 1..Len(SessionsOn(date))}}
Ends(date) == {StrpTime(s.end_time) : s \in {SessionsOn(date)[i] : i \in 1..Len(SessionsOn(date))}}
Least(S) == CHOOSE x \in S : \A y \in S : x <= y
Greatest(S) == CHOOSE x \in S : \A y \in S : x >= y

\* C8: bedtime is the time of day of the least start and wake_time the time
\* of day of the greatest end over all the sessions of the date, of any stage
\* and in any order.
C8_BedtimeWakeTime ==
    SleepAggregated =>
        \A i \in 1..Len(daily_sleep) :
            /\ daily_sleep[i].bedtime = StrfHM(Least(Starts(daily_sleep[i].date)))
            /\ daily_sleep[i].wake_time = StrfHM(Greatest(Ends(daily_sleep[i].date)))

\* a date whose least start and greatest end come from a session that is not
\* the first one and whose stage counts for no sleep
C8_Witness ==
    /\ SleepAggregated
    /\ \E i \in 1..Len(daily_sleep) :
        LET on == SessionsOn(daily_sleep[i].date) IN
        /\ Len(on) >= 2
        /\ \E k \in 2..Len(on) :
            /\ on[k].type \in {"InBed", "Awake", "Restless"}
            /\ StrpTime(on[k].start_time) < StrpTime(on[1].start_time)
            /\ StrpTime(on[k].end_time) > StrpTime(on[1].end_time)
            /\ daily_sleep[i].bedtime = StrfHM(StrpTime(on[k].start_time))
            /\ daily_sleep[i].wake_time = StrfHM(StrpTime(on[k].end_time))

\* the minutes of the sessions of a date whose stage is one of types
MinutesOf(date, types) ==
    LET of == SelectSeq(SessionsOn(date), LAMBDA s : s.type \in types)
    IN  Sum([k \in 1..Len(of) |-> of[k].duration_minutes])

CoreStages == {"Core", "AsleepCore"}
DeepStages == {"Deep", "AsleepDeep"}
REMStages == {"REM", "AsleepREM"}
AsleepStages == {"Asleep", "AsleepUnspecified"}

\* C10: total_sleep_hours is the sum, in hours, of the durations of the
\* date's sessions of stage Asleep, Core, Deep or REM; sessions of stage InBed,
\* Awake or of an unrecognized stage add nothing; core_sleep_hours,
\* deep_sleep_hours and rem_sleep_hours are the sums of their own stage.
C10_TotalSleep ==
    SleepAggregated =>
        \A i \in 1..Len(daily_sleep) :
            LET s == daily_sleep[i] IN
            /\ s.total_sleep_hours = Hundredths(Round2Hours(
                   MinutesOf(s.date, AsleepStages \cup CoreStages \cup DeepStages \cup REMStages)))
            /\ s.core_sleep_hours = Hundredths(Round2Hours(MinutesOf(s.date, CoreStages)))
            /\ s.deep_sleep_hours = Hundredths(Round2Hours(MinutesOf(s.date, DeepStages)))
            /\ s.rem_sleep_hours = Hundredths(Round2Hours(MinutesOf(s.date, REMStages)))

\* a date with a session in bed, a session awake or unrecognized, and sleep
\* of two stages whose total is no whole number of hundredths of an hour
C10_Witness ==
    /\ SleepAggregated
    /\ \E i \in 1..Len(daily_sleep) :
        LET s == daily_sleep[i]
            on == SessionsOn(s.date)
        IN  /\ \E k \in 1..Len(on) : on[k].type \in {"Awake", "Restless", "InBed"}
            /\ s.rem_sleep_hours = Hundredths(167)
            /\ s.total_sleep_hours = Hundredths(200)
            /\ MinutesOf(s.date, AsleepStages) = 20

====
